---- MODULE Spec2Model ----
(***************************************************************************)
(* Vendor qualification pipeline: FeatureMatcher (similarity matching and  *)
(* per-vendor aggregation), VendorRanker (weighted rank score, ordering,   *)
(* truncation) and the /vendor_qualification handler that drives them with *)
(* the module-level feature_matcher and vendor_ranker objects.             *)
(*                                                                         *)
(* Python floats are modelled as exact rationals [n, d] in lowest terms    *)
(* (rounding is not modelled).  Python strings that the code concatenates  *)
(* or searches are sequences of one-character strings; texts given to the  *)
(* TF-IDF vectorizer are sequences of words.  The cosine similarity of two *)
(* texts is computed by scikit-learn: its value is read from the variable  *)
(* cosine (fixed for a run), and is zero when the texts share no term.     *)
(***************************************************************************)
EXTENDS Integers, Sequences, FiniteSets, TLC

VARIABLES
    data,                  \* data_loader.data: the product table (<<>> with loaded = FALSE)
    preprocessed_dataset,  \* data_loader.preprocessed_dataset: the flattened feature rows
    loaded,                \* FALSE when data_loader is None
    cosine,                \* scikit-learn's TF-IDF cosine for each (capability, feature text) sharing a term
    similarity_threshold,  \* feature_matcher.similarity_threshold
    feature_weight,        \* vendor_ranker.feature_weight
    rating_weight,         \* vendor_ranker.rating_weight
    call                   \* the last operation served: its name, arguments and result

vars == <<data, preprocessed_dataset, loaded, cosine, similarity_threshold,
          feature_weight, rating_weight, call>>

-----------------------------------------------------------------------------
(* Floats as exact rationals.                                              *)

Abs(x) == IF x < 0 THEN -x ELSE x

RECURSIVE GCD(_, _)
GCD(a, b) == IF b = 0 THEN a ELSE GCD(b, a % b)

\* the float n/d (d > 0), in lowest terms so that equal values are equal records
R(n, d) == LET g == GCD(Abs(n), d) IN [n |-> n \div g, d |-> d \div g]

Zero == R(0, 1)
One == R(1, 1)

RAdd(a, b) == R(a.n * b.d + b.n * a.d, a.d * b.d)
RMul(a, b) == R(a.n * b.n, a.d * b.d)
\* a / k for an integer k > 0
RDivInt(a, k) == R(a.n, a.d * k)
RLe(a, b) == a.n * b.d <= b.n * a.d
RLt(a, b) == a.n * b.d < b.n * a.d
\* Python's max(a, b) and min(a, b): the first argument wins a tie
PyMax(a, b) == IF RLt(a, b) THEN b ELSE a
PyMin(a, b) == IF RLt(b, a) THEN b ELSE a

RECURSIVE RSum(_)
RSum(s) == IF s = <<>> THEN Zero ELSE RAdd(s[1], RSum(Tail(s)))

Range(s) == {s[i] : i \in 1..Len(s)}

-----------------------------------------------------------------------------
(* Strings and texts.                                                      *)

\* str.lower() on the characters the model uses
Lower(c) ==
    CASE c = "C" -> "c"
      [] c = "R" -> "r"
      [] c = "M" -> "m"
      [] c = "A" -> "a"
      [] c = "L" -> "l"
      [] c = "E" -> "e"
      [] c = "P" -> "p"
      [] OTHER -> c

\* re.search(pat, s, re.IGNORECASE) for a pattern of literal characters and
\* the metacharacter "." (any character): pandas str.contains has regex=True
RegexSearch(pat, s) ==
    \E k \in 0..(Len(s) - Len(pat)) :
        \A i \in 1..Len(pat) : pat[i] = "." \/ Lower(pat[i]) = Lower(s[k + i])

\* re.compile(pat) raises re.error: of the characters the model uses only "("
\* (a group that is never closed) makes a pattern invalid
RegexRaises(pat) == \E i \in 1..Len(pat) : pat[i] = "("

\* a category cell holding a string, and a missing (NaN) one
Cat(s) == [na |-> FALSE, s |-> s]
NaCat == [na |-> TRUE, s |-> <<>>]

\* Series.str.contains(pat, case=False, na=False) on one cell: a missing
\* (NaN) cell gives False
str_contains(cell, pat) == IF cell.na THEN FALSE ELSE RegexSearch(pat, cell.s)

\* the words TfidfVectorizer(stop_words='english') drops, or that its token
\* pattern (two or more word characters) never produces
StopWords == {"the", "a"}

\* the unigram terms of a text; a text has bigram terms only if it has these
Terms(text) == Range(text) \ StopWords

\* a cell holding a string of words
Str(w) == [k |-> "str", w |-> w]
\* a cell holding float NaN, and a cell holding None
NaNCell == [k |-> "nan", w |-> <<>>]
NoneCell == [k |-> "none", w |-> <<>>]

\* `str(x) if x and str(x) != 'nan' else ""`: None and "" are falsy, and NaN
\* and the string 'nan' both print as 'nan'
StrOrEmpty(x) ==
    IF x.k = "str" /\ x.w # <<>> /\ x.w # <<"nan">> THEN x.w ELSE <<>>

\* the combined text returned as it is, without the placeholder
prepare_feature_text_unguarded(feature_name, feature_description) ==
    StrOrEmpty(feature_name) \o StrOrEmpty(feature_name) \o StrOrEmpty(feature_description)

\* f"{name} {name} {desc}".strip(), or "unknown feature" when that is empty
prepare_feature_text(feature_name, feature_description) ==
    LET name == StrOrEmpty(feature_name)
        desc == StrOrEmpty(feature_description)
        combined_text == name \o name \o desc
    IN  IF combined_text # <<>> THEN combined_text ELSE <<"unknown", "feature">>

-----------------------------------------------------------------------------
(* DataLoader.preprocess_data: the flattener.                              *)

\* the 'Features' cell of a product row of the CSV: empty (NaN), a string
\* json.loads rejects, or a string json.loads parses to the value v
AbsentPayload == [p |-> "nan"]
BadPayload == [p |-> "text"]
JsonPayload(v) == [p |-> "json", v |-> v]

\* JSON values: null, a number or string, a list, an object; and the NaN
\* that DataFrame.explode puts in the row of an empty list
JNull == [j |-> "null"]
JScalar == [j |-> "scalar"]
JList(items) == [j |-> "list", items |-> items]
JDict(d) == [j |-> "dict", d |-> d]
JNaN == [j |-> "nan"]

\* safe_json_parse: None for NaN, for a string that does not parse, and for
\* the JSON text null (json.loads gives None)
safe_json_parse(x) == IF x.p = "json" THEN x.v ELSE JNull

\* Series.notna() on the parsed cell
notna(v) == v.j # "null"

\* DataFrame.explode on one cell: a list gives one row per element, an empty
\* list-like one row holding NaN, a dict (list-like to pandas) one row per
\* key, anything else one row holding the cell unchanged
explode(v) ==
    CASE v.j = "list" -> IF v.items = <<>> THEN <<JNaN>> ELSE v.items
      [] v.j = "dict" -> IF DOMAIN v.d = {} THEN <<JNaN>>
                         ELSE [i \in 1..Cardinality(DOMAIN v.d) |-> JScalar]
      [] OTHER -> <<v>>

\* `x.get(key, default) if isinstance(x, dict) else default`
DictGet(x, key, default) ==
    IF x.j = "dict" /\ key \in DOMAIN x.d THEN x.d[key] ELSE default

\* one row of the flattened feature table (Feature_percent and
\* Feature_review are carried like the description and left out)
Row(product_name, seller, main_category, group, name, description) ==
    [product_name |-> product_name,
     seller |-> seller,
     main_category |-> main_category,
     Features_Category |-> group,
     Feature_name |-> name,
     Feature_description |-> description]

\* the concatenation of a sequence of sequences
RECURSIVE Concat(_)
Concat(seqs) == IF seqs = <<>> THEN <<>> ELSE seqs[1] \o Concat(Tail(seqs))

\* lines 79-94: the rows of one exploded 'Features' element x of a product
FeatureRows(product, x) ==
    [k \in 1..Len(explode(DictGet(x, "features", JList(<<>>)))) |->
        Row(product.product_name, product.seller, product.main_category,
            DictGet(x, "Category", NoneCell),
            DictGet(explode(DictGet(x, "features", JList(<<>>)))[k], "name", Str(<<>>)),
            DictGet(explode(DictGet(x, "features", JList(<<>>)))[k], "description", Str(<<>>)))]

\* lines 65-94: the rows of one product whose payload parsed
ProductRows(product) ==
    Concat([g \in 1..Len(explode(safe_json_parse(product.Features))) |->
               FeatureRows(product, explode(safe_json_parse(product.Features))[g])])

\* lines 56-63: no product has features, every product is returned with the
\* feature columns set to None
WithoutFeatureColumns(table) ==
    [i \in 1..Len(table) |->
        Row(table[i].product_name, table[i].seller, table[i].main_category,
            NoneCell, NoneCell, NoneCell)]

preprocess_data(table) ==
    IF \A i \in 1..Len(table) : ~notna(safe_json_parse(table[i].Features))
    THEN WithoutFeatureColumns(table)
    ELSE Concat([i \in 1..Len(table) |->
                    IF notna(safe_json_parse(table[i].Features))
                    THEN ProductRows(table[i])
                    ELSE <<>>])

------------------------------------------------------------------------\* the rows kept by the mask `main_category == category` where a row's
\* category contains the argument, whatever the case
DataLoader_get_vendors_by_category_contains(dataset, category) ==
    SelectSeq(dataset, LAMBDA row : str_contains(row.main_category, category))

\* DataLoader.get_vendors_by_category: the rows of preprocessed_dataset kept by
\* the mask `main_category == category`; NaN equals no string
DataLoader_get_vendors_by_category(dataset, category) ==
    LET f[i \in 0..Len(dataset)] ==
            IF i = 0 THEN <<>>
            ELSE IF dataset[i].main_category = Cat(category)
                 THEN Append(f[i - 1], dataset[i])
                 ELSE f[i - 1]
    IN  f[Len(dataset)]

-----
(* FeatureMatcher.                                                         *)

\* sklearn's cosine_similarity of the TF-IDF vectors of two texts: zero when
\* they share no term, otherwise the value scikit-learn computes
cosine_similarity(capability, feature_text) ==
    IF Terms(capability) \cap Terms(feature_text) = {}
    THEN Zero
    ELSE cosine[<<capability, feature_text>>]

\* fit_transform raises ValueError (empty vocabulary) when no text has a term
VectorizerRaises(all_texts) == \A i \in 1..Len(all_texts) : Terms(all_texts[i]) = {}

\* the except branch returning np.ones instead of np.zeros
compute_similarity_matrix_ones(capabilities, feature_texts) ==
    IF capabilities = <<>> \/ feature_texts = <<>>
    THEN [size |-> 0, at |-> <<>>]
    ELSE IF VectorizerRaises(capabilities \o feature_texts)
    THEN [size |-> Len(capabilities) * Len(feature_texts),
          at |-> [i \in 1..Len(capabilities) |-> [j \in 1..Len(feature_texts) |-> One]]]
    ELSE [size |-> Len(capabilities) * Len(feature_texts),
          at |-> [i \in 1..Len(capabilities) |->
                    [j \in 1..Len(feature_texts) |->
                        cosine_similarity(capabilities[i], feature_texts[j])]]]

\* a matrix is [size |-> number of cells, at |-> row -> column -> value]
compute_similarity_matrix(capabilities, feature_texts) ==
    IF capabilities = <<>> \/ feature_texts = <<>>
    THEN [size |-> 0, at |-> <<>>]
    ELSE IF VectorizerRaises(capabilities \o feature_texts)
    THEN [size |-> Len(capabilities) * Len(feature_texts),
          at |-> [i \in 1..Len(capabilities) |-> [j \in 1..Len(feature_texts) |-> Zero]]]
    ELSE [size |-> Len(capabilities) * Len(feature_texts),
          at |-> [i \in 1..Len(capabilities) |->
                    [j \in 1..Len(feature_texts) |->
                        cosine_similarity(capabilities[i], feature_texts[j])]]]

\* where list.sort(..., reverse=True) puts an element among the keys already
\* placed, but before the elements of equal key: not stable
PlaceBefore(placed, key) == Cardinality({i \in 1..Len(placed) : RLt(key, placed[i])})

\* where list.sort(..., reverse=True) puts an element among the keys already
\* placed (in descending order): after every key that is at least its own, so
\* that equal keys keep their order
PlaceAfter(placed, key) == Cardinality({i \in 1..Len(placed) : RLe(key, placed[i])})

\* list.sort(key=..., reverse=True) on the keys of a list: the positions of the
\* list in sorted order
SortedOrder(keys) ==
    LET ins(order, i) ==
            LET k == PlaceAfter([j \in 1..Len(order) |-> keys[order[j]]], keys[i])
            IN  SubSeq(order, 1, k) \o <<i>> \o SubSeq(order, k + 1, Len(order))
        f[i \in 0..Len(keys)] == IF i = 0 THEN <<>> ELSE ins(f[i - 1], i)
    IN  f[Len(keys)]

\* the list left in the order it was built in
SortNone(seq, field) == seq

\* seq.sort(key=lambda x: x[field], reverse=True)
SortDescending(seq, field) ==
    LET order == SortedOrder([i \in 1..Len(seq) |-> seq[i][field]])
    IN  [i \in 1..Len(seq) |-> seq[order[i]]]

\* the comparison written with `>`: a score equal to the threshold is dropped
MeetsThresholdStrict(similarity_score, threshold) == RLt(threshold, similarity_score)

\* the comparison written the wrong way round
MeetsThresholdBelow(similarity_score, threshold) == RLe(similarity_score, threshold)

\* `similarity_score >= self.similarity_threshold`
MeetsThreshold(similarity_score, threshold) == RLe(threshold, similarity_score)

\* the match built for capability cap_idx and row feat_idx
MatchOf(capabilities, features_df, similarity_matrix, cap_idx, feat_idx) ==
    [product_name |-> features_df[feat_idx].product_name,
     vendor |-> features_df[feat_idx].seller,
     main_category |-> features_df[feat_idx].main_category,
     feature_category |-> features_df[feat_idx].Features_Category,
     feature_name |-> features_df[feat_idx].Feature_name,
     feature_description |-> features_df[feat_idx].Feature_description,
     matched_capability |-> capabilities[cap_idx],
     similarity_score |-> similarity_matrix.at[cap_idx][feat_idx],
     feature_text |-> prepare_feature_text(features_df[feat_idx].Feature_name,
                                           features_df[feat_idx].Feature_description)]

\* the loop over capabilities (outer) and rows (inner), before the sort
UnsortedMatches(threshold, capabilities, features_df, similarity_matrix) ==
    LET nf == Len(features_df)
        \* pair number p (1..nc*nf) is capability (p-1) \div nf + 1, row (p-1) % nf + 1
        f[p \in 0..(Len(capabilities) * nf)] ==
            IF p = 0 THEN <<>>
            ELSE LET cap_idx == ((p - 1) \div nf) + 1
                     feat_idx == ((p - 1) % nf) + 1
                 IN  IF MeetsThreshold(similarity_matrix.at[cap_idx][feat_idx], threshold)
                     THEN Append(f[p - 1],
                                 MatchOf(capabilities, features_df, similarity_matrix,
                                         cap_idx, feat_idx))
                     ELSE f[p - 1]
    IN  f[Len(capabilities) * nf]

find_matching_features(threshold, capabilities, features_df) ==
    IF features_df = <<>> \/ capabilities = <<>>
    THEN <<>>
    ELSE LET feature_texts ==
                 [j \in 1..Len(features_df) |->
                     prepare_feature_text(features_df[j].Feature_name,
                                          features_df[j].Feature_description)]
             similarity_matrix == compute_similarity_matrix(capabilities, feature_texts)
         IN  IF similarity_matrix.size = 0
             THEN <<>>
             ELSE SortDescending(
                      UnsortedMatches(threshold, capabilities, features_df, similarity_matrix),
                      "similarity_score")

\* f"{match['product_name']}_{match['vendor']}"
vendor_key(match) == match.product_name \o <<"_">> \o match.vendor

\* the position of key in an insertion-ordered dict (a sequence of entries), 0 if absent
IndexOf(dict, key) ==
    IF \E i \in 1..Len(dict) : dict[i].key = key
    THEN CHOOSE i \in 1..Len(dict) : dict[i].key = key
    ELSE 0

\* the entry created with its first match already counted
NewVendorCounted(match) ==
    [key |-> vendor_key(match),
     product_name |-> match.product_name,
     vendor |-> match.vendor,
     main_category |-> match.main_category,
     matching_features |-> <<>>,
     matched_capabilities |-> {},
     max_similarity_score |-> Zero,
     avg_similarity_score |-> Zero,
     total_matches |-> 1]

\* the entry created for a vendor_key seen for the first time
NewVendor(match) ==
    [key |-> vendor_key(match),
     product_name |-> match.product_name,
     vendor |-> match.vendor,
     main_category |-> match.main_category,
     matching_features |-> <<>>,
     matched_capabilities |-> {},
     max_similarity_score |-> Zero,
     avg_similarity_score |-> Zero,
     total_matches |-> 0]

\* the loop body without `total_matches += 1`
FoldMatchUncounted(v, match) ==
    [v EXCEPT
        !.matching_features =
            Append(@, [feature_category |-> match.feature_category,
                       feature_name |-> match.feature_name,
                       matched_capability |-> match.matched_capability,
                       similarity_score |-> match.similarity_score]),
        !.matched_capabilities = @ \cup {match.matched_capability},
        !.max_similarity_score = PyMax(@, match.similarity_score)]

\* the loop body with the match put in front of matching_features
FoldMatchInFront(v, match) ==
    [v EXCEPT
        !.matching_features =
            << [feature_category |-> match.feature_category,
                feature_name |-> match.feature_name,
                matched_capability |-> match.matched_capability,
                similarity_score |-> match.similarity_score] >> \o @,
        !.matched_capabilities = @ \cup {match.matched_capability},
        !.max_similarity_score = PyMax(@, match.similarity_score),
        !.total_matches = @ + 1]

\* one pass of the loop body of select_matching_vendors over an existing entry
FoldMatch(v, match) ==
    [v EXCEPT
        !.matching_features =
            Append(@, [feature_category |-> match.feature_category,
                       feature_name |-> match.feature_name,
                       matched_capability |-> match.matched_capability,
                       similarity_score |-> match.similarity_score]),
        !.matched_capabilities = @ \cup {match.matched_capability},
        !.max_similarity_score = PyMax(@, match.similarity_score),
        !.total_matches = @ + 1]

\* the mean taken over the distinct capabilities matched instead of the matches
AverageScorePerCapability(vendor_data) ==
    RDivInt(RSum([i \in 1..Len(vendor_data.matching_features) |->
                     vendor_data.matching_features[i].similarity_score]),
            Cardinality(vendor_data.matched_capabilities))

\* sum(similarity_score of matching_features) / total_matches
AverageScore(vendor_data) ==
    RDivInt(RSum([i \in 1..Len(vendor_data.matching_features) |->
                     vendor_data.matching_features[i].similarity_score]),
            vendor_data.total_matches)

\* list(a_set): every element once, in the set's iteration order (an order
\* fixed within a process, and not otherwise specified)
RECURSIVE list_of_set(_)
list_of_set(S) ==
    IF S = {} THEN <<>>
    ELSE LET x == CHOOSE y \in S : TRUE
         IN  <<x>> \o list_of_set(S \ {x})

\* matched_capabilities kept as a list appended to at every match
MatchedCapabilitiesPerMatch(vendor_data) ==
    [k \in 1..Len(vendor_data.matching_features) |->
        vendor_data.matching_features[k].matched_capability]

\* list(vendor_data['matched_capabilities'])
MatchedCapabilitiesList(vendor_data) == list_of_set(vendor_data.matched_capabilities)

select_matching_vendors(matches) ==
    LET f[i \in 0..Len(matches)] ==
            IF i = 0 THEN <<>>
            ELSE LET prev == f[i - 1]
                     match == matches[i]
                     at == IndexOf(prev, vendor_key(match))
                 IN  IF at = 0
                     THEN Append(prev, FoldMatch(NewVendor(match), match))
                     ELSE [prev EXCEPT ![at] = FoldMatch(@, match)]
        vendors == f[Len(matches)]
    IN  [i \in 1..Len(vendors) |->
            IF vendors[i].total_matches > 0
            THEN [vendors[i] EXCEPT !.avg_similarity_score = AverageScore(vendors[i]),
                                    !.matched_capabilities = MatchedCapabilitiesList(vendors[i])]
            ELSE vendors[i]]

\* `software_category and software_category.lower() != 'all'`
IsCategoryFilter(software_category) ==
    /\ software_category # <<>>
    /\ [i \in 1..Len(software_category) |-> Lower(software_category[i])] # <<"a", "l", "l">>

CategoryFiltered(dataframe, software_category) ==
    IF IsCategoryFilter(software_category)
    THEN SelectSeq(dataframe, LAMBDA row : str_contains(row.main_category, software_category))
    ELSE dataframe

\* str.contains compiles software_category as a regular expression before it
\* looks at any row: re.error leaves filter_vendors_by_category_and_capabilities
CategoryFilterRaises(software_category) ==
    IsCategoryFilter(software_category) /\ RegexRaises(software_category)

\* the result returned when CategoryFilterRaises does not hold
filter_vendors_by_category_and_capabilities(threshold, dataframe, software_category, capabilities) ==
    LET category_filtered == CategoryFiltered(dataframe, software_category)
    IN  IF category_filtered = <<>>
        THEN [matching_vendors |-> <<>>,
              total_vendors |-> 0,
              total_matches |-> 0,
              capabilities_searched |-> capabilities,
              category_searched |-> software_category,
              similarity_threshold |-> threshold]
        ELSE LET matches == find_matching_features(threshold, capabilities, category_filtered)
                 matching_vendors == select_matching_vendors(matches)
             IN  [matching_vendors |-> matching_vendors,
                  total_vendors |-> Len(matching_vendors),
                  total_matches |-> Len(matches),
                  capabilities_searched |-> capabilities,
                  category_searched |-> software_category,
                  similarity_threshold |-> threshold,
                  raw_matches |-> matches]

-----------------------------------------------------------------------------
(* VendorRanker.                                                           *)

\* values a dict entry or an optional argument may hold: a float, float NaN,
\* a string float() parses to v, a string float() rejects, None
Num(r) == [t |-> "num", v |-> r]
NaN == [t |-> "nan", v |-> Zero]
NumStr(r) == [t |-> "str", v |-> r]
BadStr == [t |-> "badstr", v |-> Zero]
None == [t |-> "none", v |-> Zero]

\* a top_n argument: an int, or None
TopN(n) == [t |-> "int", v |-> n]
NoTopN == [t |-> "none", v |-> 0]

\* dict.get(field, default)
Get(d, field, default) == IF field \in DOMAIN d THEN d[field] ELSE default

\* the rating after lines 41-46: a string is parsed with float(), and 0.0
\* replaces one that does not parse
RatingAsFloat(rating) ==
    CASE rating.t = "str" -> Num(rating.v)
      [] rating.t = "badstr" -> Num(Zero)
      [] OTHER -> rating

\* `rating / 5.0 if rating > 0 else 0.0`: NaN > 0 is False (a rating is a
\* float, NaN or a string here: the catalog never holds None)
NormalizedRating(rating) ==
    IF rating.t = "num" /\ RLt(Zero, rating.v) THEN RDivInt(rating.v, 5) ELSE Zero

\* max(0.0, min(1.0, x))
Clamp01(x) == PyMax(Zero, PyMin(One, x))

\* the weighted sum divided by the sum of the weights
compute_rank_score_renormalized(fw, rw, vendor_data, similarity_score) ==
    LET sim_score == IF similarity_score.t # "none" THEN similarity_score.v
                     ELSE Get(vendor_data, "avg_similarity_score", Zero)
        rating == RatingAsFloat(Get(vendor_data, "rating", Num(Zero)))
        total == RAdd(fw, rw)
        score == RAdd(RMul(fw, Clamp01(sim_score)),
                      RMul(rw, Clamp01(NormalizedRating(rating))))
    IN  IF RLt(Zero, total) THEN RMul(score, R(total.d, total.n)) ELSE score

\* compute_rank_score of a VendorRanker with weights fw and rw
compute_rank_score(fw, rw, vendor_data, similarity_score) ==
    LET sim_score == IF similarity_score.t # "none" THEN similarity_score.v
                     ELSE Get(vendor_data, "avg_similarity_score", Zero)
        rating == RatingAsFloat(Get(vendor_data, "rating", Num(Zero)))
        normalized_rating == Clamp01(NormalizedRating(rating))
    IN  RAdd(RMul(fw, Clamp01(sim_score)), RMul(rw, normalized_rating))

\* ranked_vendors[:top_n + 1]
SliceOneMore(seq, top_n) ==
    IF top_n.t = "none" THEN seq
    ELSE LET n == top_n.v + 1
         IN  IF n >= 0 THEN SubSeq(seq, 1, IF n < Len(seq) THEN n ELSE Len(seq))
             ELSE SubSeq(seq, 1, Len(seq) + n)

\* seq[:top_n]: None keeps everything, a negative top_n drops that many
\* elements from the end
Slice(seq, top_n) ==
    IF top_n.t = "none" THEN seq
    ELSE IF top_n.v >= 0 THEN SubSeq(seq, 1, IF top_n.v < Len(seq) THEN top_n.v ELSE Len(seq))
    ELSE SubSeq(seq, 1, Len(seq) + top_n.v)

\* the vendor_result built for one entry of vendors_dict
VendorResult(fw, rw, vendor_data) ==
    [vendor_key |-> vendor_data.key,
     product_name |-> Get(vendor_data, "product_name", <<>>),
     vendor |-> Get(vendor_data, "vendor", <<>>),
     main_category |-> Get(vendor_data, "main_category", Cat(<<>>)),
     rank_score |-> compute_rank_score(fw, rw, vendor_data, None),
     max_similarity_score |-> Get(vendor_data, "max_similarity_score", Zero),
     avg_similarity_score |-> Get(vendor_data, "avg_similarity_score", Zero),
     total_matches |-> Get(vendor_data, "total_matches", 0),
     matched_capabilities |-> Get(vendor_data, "matched_capabilities", <<>>),
     matching_features |-> Get(vendor_data, "matching_features", <<>>),
     rating |-> Get(vendor_data, "rating", Num(Zero))]

\* every vendor scored and sorted, before the truncation
RankedAll(fw, rw, vendors_dict) ==
    SortDescending([i \in 1..Len(vendors_dict) |-> VendorResult(fw, rw, vendors_dict[i])],
                   "rank_score")

rank_vendors(fw, rw, vendors_dict, top_n) ==
    IF vendors_dict = <<>> THEN <<>>
    ELSE Slice(RankedAll(fw, rw, vendors_dict), top_n)

\* add_ranking_explanation raises TypeError at `rating > 0` when a rating is a string
ExplanationRaises(ranked_vendors) ==
    \E i \in 1..Len(ranked_vendors) : ranked_vendors[i].rating.t \in {"str", "badstr"}

\* the explanation attached to one vendor (the score_breakdown string repeats
\* these numbers to three decimals and is left out)
ExplanationOf(fw, rw, vendor) ==
    [ranking_methodology |->
        [feature_weight |-> fw,
         rating_weight |-> rw,
         similarity_component |-> RMul(Get(vendor, "avg_similarity_score", Zero), fw),
         rating_component |-> RMul(NormalizedRating(Get(vendor, "rating", Num(Zero))), rw),
         final_score |-> Get(vendor, "rank_score", Zero)]]

\* the explanation written over the ranking: rank_score replaced by the sum of
\* the two components
add_ranking_explanation_rescoring(fw, rw, ranked_vendors) ==
    [i \in 1..Len(ranked_vendors) |->
        [ranked_vendors[i] EXCEPT
            !.rank_score =
                RAdd(ExplanationOf(fw, rw, ranked_vendors[i]).ranking_methodology.similarity_component,
                     ExplanationOf(fw, rw, ranked_vendors[i]).ranking_methodology.rating_component)]
        @@ [ranking_explanation |-> ExplanationOf(fw, rw, ranked_vendors[i])]]

\* vendor['ranking_explanation'] = explanation on every vendor of the list,
\* which is returned
add_ranking_explanation(fw, rw, ranked_vendors) ==
    [i \in 1..Len(ranked_vendors) |->
        ranked_vendors[i] @@
        [ranking_explanation |-> ExplanationOf(fw, rw, ranked_vendors[i])]]

\* min(scores) and max(scores) of a non-empty list
MinOf(scores) == CHOOSE x \in Range(scores) : \A y \in Range(scores) : RLe(x, y)
MaxOf(scores) == CHOOSE x \in Range(scores) : \A y \in Range(scores) : RLe(y, x)

\* the summary with the middle of the score range in place of the mean
get_ranking_summary_midrange(fw, rw, ranked_vendors) ==
    IF ranked_vendors = <<>>
    THEN [total_vendors |-> 0,
          score_range |-> [min |-> Zero, max |-> Zero],
          avg_score |-> Zero,
          methodology |-> [feature_weight |-> fw, rating_weight |-> rw]]
    ELSE LET scores == [i \in 1..Len(ranked_vendors) |->
                           Get(ranked_vendors[i], "rank_score", Zero)]
         IN  [total_vendors |-> Len(ranked_vendors),
              score_range |-> [min |-> MinOf(scores), max |-> MaxOf(scores)],
              avg_score |-> RDivInt(RAdd(MinOf(scores), MaxOf(scores)), 2),
              methodology |-> [feature_weight |-> fw, rating_weight |-> rw],
              top_vendor |-> [name |-> Get(ranked_vendors[1], "product_name", <<>>),
                              score |-> Get(ranked_vendors[1], "rank_score", Zero)]]

get_ranking_summary(fw, rw, ranked_vendors) ==
    IF ranked_vendors = <<>>
    THEN [total_vendors |-> 0,
          score_range |-> [min |-> Zero, max |-> Zero],
          avg_score |-> Zero,
          methodology |-> [feature_weight |-> fw, rating_weight |-> rw]]
    ELSE LET scores == [i \in 1..Len(ranked_vendors) |->
                           Get(ranked_vendors[i], "rank_score", Zero)]
         IN  [total_vendors |-> Len(ranked_vendors),
              score_range |-> [min |-> MinOf(scores), max |-> MaxOf(scores)],
              avg_score |-> RDivInt(RSum(scores), Len(scores)),
              methodology |-> [feature_weight |-> fw, rating_weight |-> rw],
              top_vendor |-> [name |-> Get(ranked_vendors[1], "product_name", <<>>),
                              score |-> Get(ranked_vendors[1], "rank_score", Zero)]]

-----------------------------------------------------------------------------
(* The /vendor_qualification handler of app.py.                            *)

\* a field left out of the request body
Omitted == [t |-> "omitted", v |-> Zero]
OmittedTopN == [t |-> "omitted", v |-> 0]

\* VendorQuery: the defaults pydantic fills in for fields left out
\* (similarity_threshold 0.5, top_n 10, include_explanations False)
VendorQuery(request) ==
    [software_category |-> request.software_category,
     capabilities |-> request.capabilities,
     similarity_threshold |->
        IF request.similarity_threshold.t = "omitted" THEN Num(R(1, 2))
        ELSE request.similarity_threshold,
     top_n |-> IF request.top_n.t = "omitted" THEN TopN(10) ELSE request.top_n,
     include_explanations |-> request.include_explanations]

\* `if query.similarity_threshold:` is False for None and for 0.0
Truthy(x) == x.t = "num" /\ x.v # Zero

\* feature_matcher.similarity_threshold after lines 72-74
ThresholdAfterUpdate(threshold, query) ==
    IF Truthy(query.similarity_threshold) THEN query.similarity_threshold.v ELSE threshold

\* lines 105-113: the rating of the first product-table row with that
\* product_name, 0.0 when there is none
RatingLookup(table, product_name) ==
    IF \E i \in 1..Len(table) : table[i].product_name = product_name
    THEN LET first == CHOOSE i \in 1..Len(table) :
                          /\ table[i].product_name = product_name
                          /\ \A j \in 1..(i - 1) : table[j].product_name # product_name
         IN  table[first].rating
    ELSE Num(Zero)

\* every exception is turned into HTTP 500 by the handler's except clause
ServerError == [status |-> 500]

\* lines 83-100: the response when no vendor matched (the message and the
\* analysis texts quote the request's threshold)
NoVendorsResponse(query, matching_results) ==
    [status |-> 200,
     query |-> query,
     results |-> [ranked_vendors |-> <<>>,
                  total_qualified_vendors |-> 0,
                  message_threshold |-> query.similarity_threshold],
     summary |-> matching_results,
     analysis |-> [threshold_impact |-> query.similarity_threshold]]

\* lines 102-115: every matching vendor with its rating attached
EnhancedVendors(table, matching_vendors) ==
    [i \in 1..Len(matching_vendors) |->
        matching_vendors[i] @@
        [rating |-> RatingLookup(table, matching_vendors[i].product_name)]]

\* lines 124-160: the response built around the ranked vendors
FullResponse(fw, rw, query, matching_results, total_qualified, ranked_vendors) ==
    [status |-> 200,
     query |-> query,
     results |->
        [ranked_vendors |-> ranked_vendors,
         total_qualified_vendors |-> total_qualified,
         returned_vendors |-> Len(ranked_vendors)],
     matching_analysis |->
        [total_feature_matches |-> matching_results.total_matches,
         capabilities_searched |-> matching_results.capabilities_searched,
         category_searched |-> matching_results.category_searched,
         similarity_threshold_used |-> matching_results.similarity_threshold],
     ranking_summary |-> get_ranking_summary(fw, rw, ranked_vendors),
     methodology |->
        [similarity_matching |-> [threshold |-> query.similarity_threshold],
         ranking |-> [feature_weight |-> fw, rating_weight |-> rw]]]
    @@ (IF query.include_explanations
        THEN [detailed_matches |->
                 SubSeq(matching_results.raw_matches, 1,
                        IF Len(matching_results.raw_matches) < 50
                        THEN Len(matching_results.raw_matches) ELSE 50)]
        ELSE <<>>)

\* lines 120-122, then the response; the explanation's TypeError ends in HTTP 500
ExplainAndRespond(fw, rw, query, matching_results, total_qualified, top_vendors) ==
    IF query.include_explanations /\ ExplanationRaises(top_vendors)
    THEN ServerError
    ELSE FullResponse(fw, rw, query, matching_results, total_qualified,
                      IF query.include_explanations
                      THEN add_ranking_explanation(fw, rw, top_vendors)
                      ELSE top_vendors)

\* lines 117-118: the enhanced vendors ranked and cut to top_n
RankAndRespond(fw, rw, query, matching_results, enhanced_vendors) ==
    ExplainAndRespond(fw, rw, query, matching_results, Len(enhanced_vendors),
                      rank_vendors(fw, rw, enhanced_vendors, query.top_n))

\* lines 83-160: the response for the matching results
RespondTo(table, fw, rw, query, matching_results) ==
    IF matching_results.matching_vendors = <<>>
    THEN NoVendorsResponse(query, matching_results)
    ELSE RankAndRespond(fw, rw, query, matching_results,
                        EnhancedVendors(table, matching_results.matching_vendors))

\* the handler past the data_loader check: the response it returns (re.error
\* raised by the category filter ends in HTTP 500)
QualifyResponse(table, dataset, threshold, fw, rw, query) ==
    IF CategoryFilterRaises(query.software_category)
    THEN ServerError
    ELSE RespondTo(table, fw, rw, query,
                   filter_vendors_by_category_and_capabilities(
                       threshold, dataset, query.software_category, query.capabilities))

\* the handler answering "no vendors found" when data_loader is None
qualify_vendors_empty_success(is_loaded, table, dataset, threshold, fw, rw, query) ==
    IF ~is_loaded
    THEN [threshold |-> threshold,
          response |-> NoVendorsResponse(
                           query,
                           filter_vendors_by_category_and_capabilities(
                               threshold, <<>>, query.software_category,
                               query.capabilities))]
    ELSE LET updated == ThresholdAfterUpdate(threshold, query)
         IN  [threshold |-> updated,
              response |-> QualifyResponse(table, dataset, updated, fw, rw, query)]

\* qualify_vendors: the threshold the module-level feature_matcher is left
\* with, and the response
qualify_vendors(is_loaded, table, dataset, threshold, fw, rw, query) ==
    IF ~is_loaded
    THEN [threshold |-> threshold, response |-> ServerError]
    ELSE LET updated == ThresholdAfterUpdate(threshold, query)
         IN  [threshold |-> updated,
              response |-> QualifyResponse(table, dataset, updated, fw, rw, query)]

-----------------------------------------------------------------------------
(* The read-only endpoints of app.py.                                      *)

\* an optional query-string category: a string, or None when left out
CategoryArg(s) == [t |-> "str", s |-> s]
NoCategory == [t |-> "none", s |-> <<>>]

\* `if category:` is False for None and for the empty string
HasCategory(category) == category.t = "str" /\ category.s # <<>>

\* frame[frame['main_category'].str.contains(category, case=False, na=False)]
\* when a category is given, the whole frame otherwise
FilteredByCategory(frame, category) ==
    IF HasCategory(category)
    THEN SelectSeq(frame, LAMBDA row : str_contains(row.main_category, category.s))
    ELSE frame

\* Series.value_counts().to_dict() of a column of cells: every value that is
\* not missing with the number of rows holding it
value_counts(cells, missing) ==
    [v \in Range(cells) \ missing |-> Cardinality({i \in 1..Len(cells) : cells[i] = v})]

\* the missing values of a category column and of a text column
MissingCategory == {NaCat}
MissingText == {NaNCell, NoneCell}

\* the position of the first row equal to row i
FirstEqual(frame, i) == CHOOSE j \in 1..i : frame[j] = frame[i] /\ \A k \in 1..(j - 1) : frame[k] # frame[i]

\* DataFrame.drop_duplicates(): the first of equal rows is kept
drop_duplicates(frame) ==
    LET f[i \in 0..Len(frame)] ==
            IF i = 0 THEN <<>>
            ELSE IF FirstEqual(frame, i) = i THEN Append(f[i - 1], frame[i]) ELSE f[i - 1]
    IN  f[Len(frame)]

\* the value fillna(0) puts in a missing main_category cell
FilledCategory == [na |-> FALSE, s |-> <<>>, filled |-> 0]

\* one row after fillna(0): missing cells hold 0
fillna(row) ==
    [row EXCEPT !.rating = IF @.t = "nan" THEN Num(Zero) ELSE @,
                !.main_category = IF @.na THEN FilledCategory ELSE @]

\* the frame data_loader holds after a handler selected rows of it, as if the
\* selection were written back into the loader
FrameAfterSelectInPlace(frame, selected) == selected

\* the frame data_loader holds after a handler selected rows of it: boolean
\* indexing, copy(), column selection, drop_duplicates() and fillna(0) all
\* build a new frame and the handlers assign none of them to the loader
FrameAfterSelect(frame, selected) == frame

\* data_loader.preprocessed_dataset after POST /vendor_qualification
DatasetAfterQualify(is_loaded, dataset, query) ==
    IF is_loaded /\ ~CategoryFilterRaises(query.software_category)
    THEN FrameAfterSelect(dataset, CategoryFiltered(dataset, query.software_category))
    ELSE dataset

\* the frame a GET handler filtered by category, afterwards
FrameAfterGet(is_loaded, frame, category) ==
    IF is_loaded /\ ~(HasCategory(category) /\ RegexRaises(category.s))
    THEN FrameAfterSelect(frame, FilteredByCategory(frame, category))
    ELSE frame

\* GET /categories
get_available_categories(is_loaded, table) ==
    IF ~is_loaded THEN ServerError
    ELSE [status |-> 200,
          available_categories |->
              value_counts([i \in 1..Len(table) |-> table[i].main_category], MissingCategory),
          total_categories |->
              Cardinality({table[i].main_category : i \in 1..Len(table)} \ {NaCat}),
          total_products |-> Len(table)]

\* the vendors of GET /vendors: the four columns without duplicate rows
VendorsOf(filtered_data) == drop_duplicates(filtered_data)

\* GET /vendors
get_vendors_by_category(is_loaded, table, category) ==
    IF ~is_loaded THEN ServerError
    ELSE IF HasCategory(category) /\ RegexRaises(category.s) THEN ServerError
    ELSE [status |-> 200,
          vendors |-> [i \in 1..Len(VendorsOf(FilteredByCategory(table, category))) |->
                          fillna(VendorsOf(FilteredByCategory(table, category))[i])],
          total_vendors |-> Len(VendorsOf(FilteredByCategory(table, category))),
          category_filter |-> category]

\* the Feature_name column of a frame
FeatureNames(frame) == [i \in 1..Len(frame) |-> frame[i].Feature_name]

\* value_counts().head(limit) keeps the `limit` most frequent names (all of
\* them when there are fewer): head is one of the sets pandas may keep, the
\* order among equally frequent names being the library's
IsHead(head, counts, limit) ==
    /\ head \subseteq DOMAIN counts
    /\ Cardinality(head) = (IF limit < Cardinality(DOMAIN counts)
                            THEN limit ELSE Cardinality(DOMAIN counts))
    /\ \A h \in head, o \in (DOMAIN counts) \ head : counts[h] >= counts[o]

\* GET /features, for the set of names head(limit) keeps
get_common_features(is_loaded, dataset, category, head) ==
    IF ~is_loaded THEN ServerError
    ELSE IF HasCategory(category) /\ RegexRaises(category.s) THEN ServerError
    ELSE [status |-> 200,
          common_features |->
              [v \in head |->
                  value_counts(FeatureNames(FilteredByCategory(dataset, category)),
                               MissingText)[v]],
          total_unique_features |->
              Cardinality(Range(FeatureNames(FilteredByCategory(dataset, category)))),
          category_filter |-> category]

\* the sets of names head(limit) may keep (none when the handler fails first)
HeadsOf(is_loaded, dataset, category, limit) ==
    IF ~is_loaded \/ (HasCategory(category) /\ RegexRaises(category.s))
    THEN {{}}
    ELSE {head \in SUBSET (Range(FeatureNames(FilteredByCategory(dataset, category)))
                             \ MissingText) :
             IsHead(head,
                    value_counts(FeatureNames(FilteredByCategory(dataset, category)),
                                 MissingText),
                    limit)}

\* GET /health
health_check(is_loaded, table, dataset) ==
    [status |-> 200,
     health |-> "healthy",
     data_loader_status |-> IF is_loaded THEN "initialized" ELSE "failed",
     total_products |-> IF is_loaded THEN Len(table) ELSE 0,
     total_features |-> IF is_loaded THEN Len(dataset) ELSE 0]

-----------------------------------------------------------------------------
(* Inputs of the model.                                                    *)

\* the longest feature table drawn
MaxRows == 3

\* flattened feature rows: two features of one product, the same product name
\* under another seller and category, a feature whose text has no term, and a
\* feature with neither name nor description of a product without category;
\* the last two products are "q_r" sold by "t" and "q" sold by "r_t"
RowLead == Row(<<"p">>, <<"s">>, Cat(<<"C", "R", "M">>), Str(<<"g1">>), Str(<<"lead">>), Str(<<>>))
RowEmail == Row(<<"p">>, <<"s">>, Cat(<<"C", "R", "M">>), Str(<<"g2">>), Str(<<"email">>), Str(<<"lead">>))
RowOtherSeller == Row(<<"p">>, <<"t">>, Cat(<<"E", "R", "P">>), Str(<<"g1">>), Str(<<"lead">>), NaNCell)
RowStopWord == Row(<<"q", "_", "r">>, <<"t">>, Cat(<<"C", "R", "M">>), Str(<<"g1">>), Str(<<"the">>), NoneCell)
RowBlank == Row(<<"q">>, <<"r", "_", "t">>, NaCat, Str(<<"g1">>), NoneCell, NaNCell)

RowPool == { RowLead, RowEmail, RowOtherSeller, RowStopWord, RowBlank }

\* the sequences of distinct elements of S of length at most n
RECURSIVE DistinctSeqs(_, _)
DistinctSeqs(S, n) ==
    IF n = 0 THEN {<<>>}
    ELSE LET shorter == DistinctSeqs(S, n - 1)
         IN  shorter \cup
             UNION { {Append(q, x) : x \in S \ Range(q)} :
                     q \in {t \in shorter : Len(t) = n - 1} }

FeatureTables == DistinctSeqs(RowPool, MaxRows)

\* requested capability lists: none, one, a stop word only, two, one twice
CapabilityLists ==
    { <<>>,
      << <<"lead">> >>,
      << <<"the">> >>,
      << <<"lead">>, <<"email">> >>,
      << <<"email">>, <<"lead">> >>,
      << <<"lead">>, <<"lead">> >> }

CategoryQueries ==
    { <<"c", "r", "m">>, <<"A", "l", "l">>, <<>>, <<"x">>, <<"c", ".", "m">>, <<"(">> }

\* the (capability, feature text) pairs of the model that share a term
SharedPairs ==
    { << <<"lead">>, <<"lead", "lead">> >>,
      << <<"lead">>, <<"email", "email", "lead">> >>,
      << <<"email">>, <<"email", "email", "lead">> >> }

\* cosine values of texts that share a term
PositiveScores == { R(3, 5), R(4, 5) }

\* thresholds a FeatureMatcher is constructed with
Thresholds == { R(0, 1), R(1, 2), R(3, 5), R(4, 5), R(19, 20) }

\* FeatureMatcher(similarity_threshold=0.5) and VendorRanker(0.7, 0.3) of app.py
DefaultThreshold == R(1, 2)
DefaultFeatureWeight == R(7, 10)
DefaultRatingWeight == R(3, 10)

NoCall == [op |-> "none"]

-----------------------------------------------------------------------------
(* The matcher on its own: a FeatureMatcher constructed with any threshold *)
(* is called once on any feature table.                                    *)

InitMatch ==
    /\ data = <<>>
    /\ preprocessed_dataset \in FeatureTables
    /\ loaded = TRUE
    /\ cosine \in [SharedPairs -> PositiveScores]
    /\ similarity_threshold \in Thresholds
    /\ feature_weight = DefaultFeatureWeight
    /\ rating_weight = DefaultRatingWeight
    /\ call = NoCall

FindMatchingFeatures ==
    /\ call = NoCall
    /\ \E capabilities \in CapabilityLists :
        call' = [op |-> "find_matching_features",
                 capabilities |-> capabilities,
                 result |-> find_matching_features(similarity_threshold, capabilities,
                                                   preprocessed_dataset)]
    /\ UNCHANGED <<data, preprocessed_dataset, loaded, cosine, similarity_threshold,
                   feature_weight, rating_weight>>

FilterVendors ==
    /\ call = NoCall
    /\ \E capabilities \in CapabilityLists, software_category \in CategoryQueries :
        call' = IF CategoryFilterRaises(software_category)
                THEN [op |-> "filter_vendors_raised",
                      capabilities |-> capabilities,
                      software_category |-> software_category]
                ELSE [op |-> "filter_vendors",
                      capabilities |-> capabilities,
                      software_category |-> software_category,
                      result |-> filter_vendors_by_category_and_capabilities(
                                     similarity_threshold, preprocessed_dataset,
                                     software_category, capabilities)]
    /\ UNCHANGED <<data, preprocessed_dataset, loaded, cosine, similarity_threshold,
                   feature_weight, rating_weight>>

NextMatch == FindMatchingFeatures \/ FilterVendors

SpecMatch == InitMatch /\ [][NextMatch]_vars

-----------------------------------------------------------------------------
(* Claims about the matcher (checked under SpecMatch).                     *)

IsFind == call.op = "find_matching_features"
IsFilter == call.op = "filter_vendors"

\* the feature texts and the similarity matrix of a find_matching_features call
TextsOf(features_df) ==
    [j \in 1..Len(features_df) |->
        prepare_feature_text(features_df[j].Feature_name, features_df[j].Feature_description)]
MatrixOf(capabilities, features_df) ==
    compute_similarity_matrix(capabilities, TextsOf(features_df))

\* the number of positions of seq that hold x
Count(x, seq) == Cardinality({k \in 1..Len(seq) : seq[k] = x})

\* the matches of a result of filter_vendors_by_category_and_capabilities
RawMatches(result) ==
    IF "raw_matches" \in DOMAIN result THEN result.raw_matches ELSE <<>>

\* C1: find_matching_features retains the pair (capability i, row j) if and
\* only if similarity[i, j] >= similarity_threshold: a pair at the threshold
\* is kept, none below it is kept, none at or above it is dropped.
C1_RetainIffAtLeastThreshold ==
    (IsFind /\ call.capabilities # <<>> /\ preprocessed_dataset # <<>>) =>
        LET caps == call.capabilities
            df == preprocessed_dataset
            M == MatrixOf(caps, df)
            kept == {<<i, j>> \in (1..Len(caps)) \X (1..Len(df)) :
                        RLe(similarity_threshold, M.at[i][j])}
        IN  /\ \A i \in 1..Len(caps), j \in 1..Len(df) :
                 (\E k \in 1..Len(call.result) :
                     call.result[k] = MatchOf(caps, df, M, i, j))
                 <=> (<<i, j>> \in kept)
            /\ Len(call.result) = Cardinality(kept)

\* a call that keeps a pair scoring exactly the threshold and drops a lower one
C1_Witness ==
    /\ IsFind
    /\ \E k \in 1..Len(call.result) : call.result[k].similarity_score = similarity_threshold
    /\ LET M == MatrixOf(call.capabilities, preprocessed_dataset)
       IN  \E i \in 1..Len(call.capabilities), j \in 1..Len(preprocessed_dataset) :
               RLt(M.at[i][j], similarity_threshold)

\* C2: for a fixed table, category and capability list, the matches at a
\* threshold t1 include (with multiplicity) the matches at any threshold
\* t2 > t1, and the vendors at t1 include the vendors at t2.
C2_ThresholdMonotone ==
    IsFilter =>
        \A t1 \in Thresholds :
            RLt(t1, similarity_threshold) =>
                LET low == filter_vendors_by_category_and_capabilities(
                               t1, preprocessed_dataset, call.software_category,
                               call.capabilities)
                    high == call.result
                IN  /\ \A m \in Range(RawMatches(high)) :
                         Count(m, RawMatches(high)) <= Count(m, RawMatches(low))
                    /\ {high.matching_vendors[i].key : i \in 1..Len(high.matching_vendors)}
                       \subseteq
                       {low.matching_vendors[i].key : i \in 1..Len(low.matching_vendors)}
                    /\ high.total_matches <= low.total_matches

\* a call whose matches and vendors are non-empty and strictly fewer than at a
\* lower threshold
C2_Witness ==
    /\ IsFilter
    /\ call.result.total_vendors > 0
    /\ \E t1 \in Thresholds :
        /\ RLt(t1, similarity_threshold)
        /\ LET low == filter_vendors_by_category_and_capabilities(
                          t1, preprocessed_dataset, call.software_category,
                          call.capabilities)
           IN  /\ low.total_matches > call.result.total_matches
               /\ low.total_vendors > call.result.total_vendors

\* the retained matches folded under a vendor entry's key
MatchesOfVendor(matches, v) == SelectSeq(matches, LAMBDA m : vendor_key(m) = v.key)

\* C3: for every vendor in the output of select_matching_vendors,
\* avg_similarity_score is the mean of the scores of all its retained matches
\* (over the match count), max_similarity_score is their maximum, and
\* total_matches is their count and the length of matching_features.
C3_AggregationCorrect ==
    IsFilter =>
        \A i \in 1..Len(call.result.matching_vendors) :
            LET v == call.result.matching_vendors[i]
                mine == MatchesOfVendor(RawMatches(call.result), v)
            IN  /\ v.total_matches = Len(mine)
                /\ v.total_matches = Len(v.matching_features)
                /\ Len(mine) > 0
                /\ RMul(v.avg_similarity_score, R(Len(mine), 1))
                   = RSum([k \in 1..Len(mine) |-> mine[k].similarity_score])
                /\ \E k \in 1..Len(mine) : mine[k].similarity_score = v.max_similarity_score
                /\ \A k \in 1..Len(mine) : RLe(mine[k].similarity_score, v.max_similarity_score)

\* a vendor matched through two features for the same capability, scoring
\* 0.6 and 0.8: average 0.7, maximum 0.8, two matches
C3_Witness ==
    /\ IsFilter
    /\ \E i \in 1..Len(call.result.matching_vendors) :
        LET v == call.result.matching_vendors[i]
        IN  /\ v.total_matches = 2
            /\ Len(v.matched_capabilities) = 1
            /\ v.avg_similarity_score = R(7, 10)
            /\ v.max_similarity_score = R(4, 5)

\* the vectorizer raised in the served find_matching_features call
VectorizationFailed ==
    /\ IsFind
    /\ call.capabilities # <<>>
    /\ preprocessed_dataset # <<>>
    /\ VectorizerRaises(call.capabilities \o TextsOf(preprocessed_dataset))

\* C10 as stated: whenever vectorization fails, find_matching_features
\* returns an empty match set, for every configured threshold.
C10_EmptyOnVectorizerFailure == VectorizationFailed => call.result = <<>>

\* C10 amended: whenever vectorization fails, find_matching_features returns
\* an empty match set for every threshold greater than zero.
C10_EmptyOnVectorizerFailurePositive ==
    (VectorizationFailed /\ RLt(Zero, similarity_threshold)) => call.result = <<>>

\* vectorization failed under a positive threshold
C10_Witness == VectorizationFailed /\ RLt(Zero, similarity_threshold)

\* a call of filter_vendors_by_category_and_capabilities, returned or raised
IsFilterCall == call.op \in {"filter_vendors", "filter_vendors_raised"}

\* sub occurs in s, letter case ignored
IsSubstring(sub, s) ==
    \E k \in 0..(Len(s) - Len(sub)) :
        \A i \in 1..Len(sub) : Lower(sub[i]) = Lower(s[k + i])

\* the row's main_category contains software_category as a substring
InCategory(row, software_category) ==
    ~row.main_category.na /\ IsSubstring(software_category, row.main_category.s)

\* a category is asked for and no row of the table is in it
NoRowInCategory(dataframe, software_category) ==
    /\ IsCategoryFilter(software_category)
    /\ \A i \in 1..Len(dataframe) : ~InCategory(dataframe[i], software_category)

\* C11: filter_vendors_by_category_and_capabilities called with an empty
\* capability list, an empty catalog, or a category that no row matches never
\* raises and returns a result with no matching vendors, total_vendors = 0
\* and total_matches = 0.
C11_EmptyInputSafe ==
    (/\ IsFilterCall
     /\ \/ call.capabilities = <<>>
        \/ preprocessed_dataset = <<>>
        \/ NoRowInCategory(preprocessed_dataset, call.software_category))
    => /\ call.op = "filter_vendors"
       /\ call.result.matching_vendors = <<>>
       /\ call.result.total_vendors = 0
       /\ call.result.total_matches = 0

\* the retained matches of the product with the identity of a vendor entry
MatchesOfIdentity(matches, v) ==
    SelectSeq(matches, LAMBDA m : m.product_name = v.product_name /\ m.vendor = v.vendor)

\* C17: aggregation is keyed by the identity tuple (product_name, seller):
\* matches of products whose pairs differ are never folded into the same
\* aggregate, and matches with the same pair are always folded into one.
C17_KeyedByIdentity ==
    IsFilter =>
        /\ \A i \in 1..Len(call.result.matching_vendors) :
               call.result.matching_vendors[i].total_matches
               = Len(MatchesOfIdentity(RawMatches(call.result),
                                       call.result.matching_vendors[i]))
        /\ Len(call.result.matching_vendors)
           = Cardinality({<<m.product_name, m.vendor>> : m \in Range(RawMatches(call.result))})

\* the rows left by the category filter
RowsMatchedBy(dataframe, software_category) ==
    Range(CategoryFiltered(dataframe, software_category))

\* the keys of the map returned by select_matching_vendors
KeysOf(matching_vendors) == {matching_vendors[i].key : i \in 1..Len(matching_vendors)}

\* C18: the key set of the map returned by select_matching_vendors is exactly
\* the set of vendors with at least one retained match: every vendor in the
\* map has total_matches >= 1 and a non-empty matching_features list, and
\* every vendor appearing in some match is in the map.
C18_KeysAreMatchedVendors ==
    IsFilter =>
        /\ KeysOf(call.result.matching_vendors)
           = {vendor_key(m) : m \in Range(RawMatches(call.result))}
        /\ \A i \in 1..Len(call.result.matching_vendors) :
               /\ call.result.matching_vendors[i].total_matches >= 1
               /\ call.result.matching_vendors[i].matching_features # <<>>
        /\ \A i, j \in 1..Len(call.result.matching_vendors) :
               call.result.matching_vendors[i].key = call.result.matching_vendors[j].key
               => i = j

\* some vendors are in the map, and a vendor of the filtered table has no
\* retained match and is not in it
C18_Witness ==
    /\ IsFilter
    /\ Len(call.result.matching_vendors) >= 2
    /\ \E row \in RowsMatchedBy(preprocessed_dataset, call.software_category) :
           row.product_name \o <<"_">> \o row.seller
           \notin KeysOf(call.result.matching_vendors)

\* the rows given to find_matching_features by the served call (none when
\* the category filter raised)
RowsMatched ==
    IF call.op = "filter_vendors"
    THEN Range(CategoryFiltered(preprocessed_dataset, call.software_category))
    ELSE {}

\* C14: for every software_category value, a feature row takes part in
\* similarity matching (and can appear in a match) if and only if its
\* main_category contains software_category as a case-insensitive substring.
C14_CategoryBySubstring ==
    IsFilterCall =>
        \A i \in 1..Len(preprocessed_dataset) :
            (preprocessed_dataset[i] \in RowsMatched)
            <=> InCategory(preprocessed_dataset[i], call.software_category)

-----------------------------------------------------------------------------
(* The ranker on its own: a VendorRanker constructed with any weights      *)
(* ranks any dict of vendor aggregates once.                               *)

\* the most vendors in a dict given to the ranker
MaxVendors == 3

\* (avg_similarity_score, rating) of the vendors drawn; "absent" leaves the
\* key out of the dict
VendorProfiles ==
    { <<Num(R(4, 5)), Num(R(4, 1))>>,
      <<Num(R(4, 5)), NumStr(R(4, 1))>>,
      <<Num(R(1, 2)), None>>,
      <<Num(R(1, 2)), NaN>>,
      <<Num(R(3, 2)), Num(R(6, 1))>>,
      <<None, BadStr>>,
      <<Num(R(1, 1)), Num(R(-1, 1))>> }

\* the i-th vendor name: i characters
NameOf(i) == [k \in 1..i |-> "v"]

\* the aggregate of vendor i with the given profile
VendorOf(i, profile) ==
    LET base == [key |-> NameOf(i) \o <<"_">> \o <<"s">>,
                 product_name |-> NameOf(i),
                 vendor |-> <<"s">>,
                 main_category |-> Cat(<<"C", "R", "M">>),
                 max_similarity_score |-> One,
                 total_matches |-> 1,
                 matched_capabilities |-> << <<"lead">> >>,
                 matching_features |-> <<>>]
        with_avg == IF profile[1].t = "none" THEN base
                    ELSE base @@ [avg_similarity_score |-> profile[1].v]
    IN  IF profile[2].t = "none" THEN with_avg
        ELSE with_avg @@ [rating |-> profile[2]]

RECURSIVE VendorDicts(_)
VendorDicts(n) ==
    IF n = 0 THEN {<<>>}
    ELSE LET shorter == VendorDicts(n - 1)
         IN  shorter \cup
             {Append(d, VendorOf(n, p)) : d \in {t \in shorter : Len(t) = n - 1},
                                          p \in VendorProfiles}

\* (feature_weight, rating_weight) a VendorRanker is constructed with
WeightPairs ==
    { <<R(7, 10), R(3, 10)>>, <<R(1, 2), R(1, 2)>>, <<R(1, 1), R(1, 1)>>,
      <<R(0, 1), R(1, 1)>>, <<R(-1, 2), R(1, 1)>> }

\* top_n arguments: positive, zero, negative, None
TopNs == { TopN(1), TopN(2), TopN(10), TopN(0), TopN(-1), NoTopN }

InitRank ==
    /\ data = <<>>
    /\ preprocessed_dataset = <<>>
    /\ loaded = TRUE
    /\ cosine = <<>>
    /\ similarity_threshold = DefaultThreshold
    /\ \E w \in WeightPairs : feature_weight = w[1] /\ rating_weight = w[2]
    /\ \E d \in VendorDicts(MaxVendors) : call = [op |-> "none", vendors_dict |-> d]

RankVendors ==
    /\ call.op = "none"
    /\ \E top_n \in TopNs :
        call' = [op |-> "rank_vendors",
                 vendors_dict |-> call.vendors_dict,
                 top_n |-> top_n,
                 result |-> rank_vendors(feature_weight, rating_weight,
                                         call.vendors_dict, top_n)]
    /\ UNCHANGED <<data, preprocessed_dataset, loaded, cosine, similarity_threshold,
                   feature_weight, rating_weight>>

\* add_ranking_explanation on the list rank_vendors returned
Explain ==
    /\ call.op = "rank_vendors"
    /\ call' = IF ExplanationRaises(call.result)
               THEN [op |-> "add_ranking_explanation_raised",
                     vendors_dict |-> call.vendors_dict,
                     top_n |-> call.top_n,
                     ranked_vendors |-> call.result]
               ELSE [op |-> "add_ranking_explanation",
                     vendors_dict |-> call.vendors_dict,
                     top_n |-> call.top_n,
                     ranked_vendors |-> call.result,
                     result |-> add_ranking_explanation(feature_weight, rating_weight,
                                                        call.result)]
    /\ UNCHANGED <<data, preprocessed_dataset, loaded, cosine, similarity_threshold,
                   feature_weight, rating_weight>>

\* get_ranking_summary on the list rank_vendors returned
Summarize ==
    /\ call.op = "rank_vendors"
    /\ call' = [op |-> "get_ranking_summary",
                vendors_dict |-> call.vendors_dict,
                top_n |-> call.top_n,
                ranked_vendors |-> call.result,
                result |-> get_ranking_summary(feature_weight, rating_weight, call.result)]
    /\ UNCHANGED <<data, preprocessed_dataset, loaded, cosine, similarity_threshold,
                   feature_weight, rating_weight>>

NextRank == RankVendors \/ Explain \/ Summarize

SpecRank == InitRank /\ [][NextRank]_vars

-----------------------------------------------------------------------------
(* Claims about the ranker (checked under SpecRank).                       *)

IsRank == call.op = "rank_vendors"

\* the entry of the ranked dict that a returned vendor was built from
SourceOf(r) == call.vendors_dict[IndexOf(call.vendors_dict, r.vendor_key)]

\* C4: the list returned by rank_vendors is ordered by rank_score
\* non-increasing, and vendors of equal rank_score keep the relative order in
\* which the aggregation map emitted them.
C4_RankOrderStable ==
    IsRank =>
        \A a, b \in 1..Len(call.result) :
            a < b =>
                /\ RLe(call.result[b].rank_score, call.result[a].rank_score)
                /\ (call.result[a].rank_score = call.result[b].rank_score =>
                        IndexOf(call.vendors_dict, call.result[a].vendor_key)
                        < IndexOf(call.vendors_dict, call.result[b].vendor_key))

\* a ranking that holds a tie and that moved a later vendor ahead of an earlier one
C4_Witness ==
    /\ IsRank
    /\ \E a, b \in 1..Len(call.result) :
        a < b /\ call.result[a].rank_score = call.result[b].rank_score
    /\ \E a, b \in 1..Len(call.result) :
        /\ a < b
        /\ IndexOf(call.vendors_dict, call.result[a].vendor_key)
           > IndexOf(call.vendors_dict, call.result[b].vendor_key)

\* clamp(x, 0, 1)
ClampRef(x) == IF RLt(x, Zero) THEN Zero ELSE IF RLt(One, x) THEN One ELSE x

\* the normalized rating the weight algebra names: clamp(rating / 5, 0, 1),
\* and 0 for a rating that is absent, not a number, zero or negative
RatingNormRef(vendor_data) ==
    IF "rating" \notin DOMAIN vendor_data THEN Zero
    ELSE LET rating == vendor_data.rating
         IN  IF rating.t \in {"num", "str"} /\ RLt(Zero, rating.v)
             THEN ClampRef(R(rating.v.n, rating.v.d * 5))
             ELSE Zero

AvgRef(vendor_data) ==
    IF "avg_similarity_score" \in DOMAIN vendor_data
    THEN vendor_data.avg_similarity_score
    ELSE Zero

\* C5: rank_score = feature_weight * clamp(avg_similarity_score, 0, 1)
\* + rating_weight * clamp(rating / 5, 0, 1) for every ranked vendor, a rating
\* that is absent, zero or negative counting as 0, with no re-normalization of
\* the weights.
C5_WeightAlgebra ==
    IsRank =>
        \A k \in 1..Len(call.result) :
            LET r == call.result[k]
                v == SourceOf(r)
            IN  r.rank_score =
                    RAdd(RMul(feature_weight, ClampRef(AvgRef(v))),
                         RMul(rating_weight, RatingNormRef(v)))

\* weights 0.7 and 0.3: a vendor with average 0.8 and rating 4.0 scores 0.8,
\* next to a vendor whose rating is absent
C5_Witness ==
    /\ IsRank
    /\ feature_weight = R(7, 10)
    /\ rating_weight = R(3, 10)
    /\ \E k \in 1..Len(call.result) :
        /\ call.result[k].rank_score = R(4, 5)
        /\ call.result[k].avg_similarity_score = R(4, 5)
        /\ call.result[k].rating = Num(R(4, 1))
    /\ \E k \in 1..Len(call.result) : "rating" \notin DOMAIN SourceOf(call.result[k])

ScoresInUnitInterval ==
    \A k \in 1..Len(call.result) :
        RLe(Zero, call.result[k].rank_score) /\ RLe(call.result[k].rank_score, One)

\* C6 as stated: every returned vendor has rank_score in [0, 1], for every
\* ranker configuration and every vendor aggregate.
C6_RankScoreInUnitInterval == IsRank => ScoresInUnitInterval

Min(a, b) == IF a < b THEN a ELSE b

\* C7: for a positive top_n, rank_vendors returns exactly the first
\* min(top_n, number of vendors) vendors of the rank-sorted order, and no
\* vendor that was cut scores higher than a returned one.
C7_TopNPrefix ==
    (IsRank /\ call.top_n.t = "int" /\ call.top_n.v > 0) =>
        LET all == RankedAll(feature_weight, rating_weight, call.vendors_dict)
            n == Min(call.top_n.v, Len(call.vendors_dict))
        IN  /\ Len(call.result) = n
            /\ call.result = SubSeq(all, 1, n)
            /\ \A c \in (n + 1)..Len(all), k \in 1..Len(call.result) :
                 RLe(all[c].rank_score, call.result[k].rank_score)

\* a positive top_n below the vendor count, cutting a strictly lower-scored vendor
C7_Witness ==
    /\ IsRank
    /\ call.top_n.t = "int"
    /\ call.top_n.v > 0
    /\ Len(call.result) = call.top_n.v
    /\ Len(call.vendors_dict) > call.top_n.v
    /\ \E i \in 1..Len(call.vendors_dict) :
        /\ \A k \in 1..Len(call.result) :
             call.result[k].vendor_key # call.vendors_dict[i].key
        /\ RLt(compute_rank_score(feature_weight, rating_weight, call.vendors_dict[i], None),
               call.result[Len(call.result)].rank_score)

-----------------------------------------------------------------------------
(* The service: one process serving vendor-qualification requests.         *)

Product(product_name, seller, main_category, rating) ==
    [product_name |-> product_name,
     seller |-> seller,
     main_category |-> main_category,
     rating |-> rating]

\* the product table behind RowPool: product "p" is sold by two sellers with
\* different ratings, product "q_r" has no rating
ProductTable ==
    << Product(<<"p">>, <<"s">>, Cat(<<"C", "R", "M">>), Num(R(9, 2))),
       Product(<<"p">>, <<"t">>, Cat(<<"E", "R", "P">>), Num(R(3, 1))),
       Product(<<"q", "_", "r">>, <<"t">>, Cat(<<"C", "R", "M">>), NaN),
       Product(<<"q">>, <<"r", "_", "t">>, NaCat, Num(R(5, 1))) >>

\* the flattened tables the service is started with
ServiceTables ==
    { <<RowLead, RowEmail, RowOtherSeller, RowStopWord>>,
      <<RowOtherSeller, RowBlank, RowEmail, RowLead>> }

\* the cosine tables the service is started with
ServiceCosines ==
    {c \in [SharedPairs -> PositiveScores] :
        /\ c[<< <<"lead">>, <<"email", "email", "lead">> >>] = R(3, 5)
        /\ c[<< <<"email">>, <<"email", "email", "lead">> >>] = R(4, 5)}

\* request bodies
Requests ==
    [software_category : { <<"c", "r", "m">>, <<"A", "L", "L">>, <<"x">>, <<"(">> },
     capabilities : { << <<"lead">> >>, << <<"lead">>, <<"email">> >> },
     similarity_threshold : { Omitted, None, Num(R(0, 1)), Num(R(3, 5)), Num(R(4, 5)) },
     top_n : { OmittedTopN, TopN(1), TopN(0), TopN(-1) },
     include_explanations : BOOLEAN]

Init ==
    /\ \/ /\ loaded = TRUE
          /\ data = ProductTable
          /\ preprocessed_dataset \in ServiceTables
       \/ /\ loaded = FALSE
          /\ data = <<>>
          /\ preprocessed_dataset = <<>>
    /\ cosine \in ServiceCosines
    /\ similarity_threshold = DefaultThreshold
    /\ feature_weight = DefaultFeatureWeight
    /\ rating_weight = DefaultRatingWeight
    /\ call = NoCall

\* one request served: the matcher's threshold and the response are recorded
Serve(query, served) ==
    /\ similarity_threshold' = served.threshold
    /\ call' = [op |-> "vendor_qualification",
                query |-> query,
                response |-> served.response]
    /\ preprocessed_dataset' = DatasetAfterQualify(loaded, preprocessed_dataset, query)
    /\ UNCHANGED <<data, loaded, cosine, feature_weight, rating_weight>>

ServeQuery(query) ==
    Serve(query, qualify_vendors(loaded, data, preprocessed_dataset,
                                 similarity_threshold, feature_weight,
                                 rating_weight, query))

Qualify == \E request \in Requests : ServeQuery(VendorQuery(request))

\* query-string arguments of the GET endpoints
CategoryArgs ==
    { NoCategory, CategoryArg(<<>>), CategoryArg(<<"c", "r", "m">>), CategoryArg(<<"(">>) }
Limits == { 20, 1 }

Categories ==
    /\ call' = [op |-> "categories",
                response |-> get_available_categories(loaded, data)]
    /\ UNCHANGED <<data, preprocessed_dataset, loaded, cosine, similarity_threshold,
                   feature_weight, rating_weight>>

Vendors ==
    \E category \in CategoryArgs :
        /\ call' = [op |-> "vendors",
                    category |-> category,
                    response |-> get_vendors_by_category(loaded, data, category)]
        /\ data' = FrameAfterGet(loaded, data, category)
        /\ UNCHANGED <<preprocessed_dataset, loaded, cosine, similarity_threshold,
                       feature_weight, rating_weight>>

Features ==
    \E category \in CategoryArgs, limit \in Limits :
        \E head \in HeadsOf(loaded, preprocessed_dataset, category, limit) :
            /\ call' = [op |-> "features",
                        category |-> category,
                        limit |-> limit,
                        response |-> get_common_features(loaded, preprocessed_dataset,
                                                         category, head)]
            /\ preprocessed_dataset' = FrameAfterGet(loaded, preprocessed_dataset, category)
            /\ UNCHANGED <<data, loaded, cosine, similarity_threshold,
                           feature_weight, rating_weight>>

Health ==
    /\ call' = [op |-> "health",
                response |-> health_check(loaded, data, preprocessed_dataset)]
    /\ UNCHANGED <<data, preprocessed_dataset, loaded, cosine, similarity_threshold,
                   feature_weight, rating_weight>>

Next == Qualify \/ Categories \/ Vendors \/ Features \/ Health

Spec == Init /\ [][Next]_vars

-----------------------------------------------------------------------------
(* Claims about the service (checked under Spec).                          *)

IsQualify == call.op = "vendor_qualification"

\* the threshold the matcher applied, as both response shapes report it
ThresholdUsed(response) ==
    IF "summary" \in DOMAIN response
    THEN response.summary.similarity_threshold
    ELSE response.matching_analysis.similarity_threshold_used

\* C8: the outcome of each request is determined only by its own parameters
\* and the catalog: it is the outcome the same request gets from a process
\* that has served nothing before.
C8_RequestsIndependent ==
    IsQualify =>
        call.response =
            qualify_vendors(loaded, data, preprocessed_dataset, DefaultThreshold,
                            feature_weight, rating_weight, call.query).response

\* C9: the threshold applied while serving a request equals the
\* similarity_threshold the request carries (0.5 when the field is omitted),
\* for every value, 0 included.
C9_ThresholdFollowsRequest ==
    (IsQualify /\ call.response.status = 200 /\ call.query.similarity_threshold.t = "num") =>
        ThresholdUsed(call.response) = call.query.similarity_threshold.v

\* the endpoints that read the catalog
CatalogEndpoints == {"vendor_qualification", "categories", "vendors", "features"}

\* C12: when data_loader is None, every catalog-dependent endpoint
\* (vendor_qualification, categories, vendors, features) answers with an error
\* and never with a successful (empty or "no vendors found") payload.
C12_CatalogUnavailableIsError ==
    (~loaded /\ call.op \in CatalogEndpoints) =>
        /\ call.response = ServerError
        /\ call.response.status # 200

\* a vendor-qualification request answered while data_loader is None
C12_Witness ==
    /\ ~loaded
    /\ call.op = "vendor_qualification"
    /\ call.response.status = 500

\* no vendor qualifies for the served request: the category is in no row, or
\* the matcher, at the threshold it applied, found no vendor
NoVendorQualifies ==
    IF CategoryFilterRaises(call.query.software_category)
    THEN NoRowInCategory(preprocessed_dataset, call.query.software_category)
    ELSE filter_vendors_by_category_and_capabilities(
             similarity_threshold, preprocessed_dataset,
             call.query.software_category, call.query.capabilities).matching_vendors = <<>>

\* C13: when no vendor qualifies for a request, qualify_vendors returns a
\* successful payload with an empty ranked_vendors list and
\* total_qualified_vendors = 0 that carries the capabilities, category and
\* threshold that produced it; it does not raise and does not call the ranker.
C13_EmptyResultIsSuccess ==
    (loaded /\ IsQualify /\ NoVendorQualifies) =>
        /\ call.response.status = 200
        /\ call.response.results.ranked_vendors = <<>>
        /\ call.response.results.total_qualified_vendors = 0
        /\ call.response.summary.capabilities_searched = call.query.capabilities
        /\ call.response.summary.category_searched = call.query.software_category
        /\ call.response.summary.similarity_threshold = similarity_threshold
        /\ "ranking_summary" \notin DOMAIN call.response

-----------------------------------------------------------------------------
(* The loader on its own: DataLoader(file_path) reads a product table and  *)
(* flattens it once.                                                       *)

\* the most products in a CSV drawn
MaxProducts == 2

\* feature records and feature groups of the payloads drawn
FeatureLead == JDict([name |-> Str(<<"lead">>), description |-> Str(<<>>)])
FeatureEmail == JDict([name |-> Str(<<"email">>), description |-> Str(<<"lead">>)])
Group(category, features) == JDict([Category |-> Str(<<category>>), features |-> JList(features)])
GroupWithoutList(category) == JDict([Category |-> Str(<<category>>)])

\* 'Features' cells: absent, unparseable, the text null, an empty list, an
\* object where the list is expected, a number, a list holding a number, one
\* group of two features, a group next to one with an empty list, a group
\* without a list next to a group of one feature
Payloads ==
    { AbsentPayload,
      BadPayload,
      JsonPayload(JNull),
      JsonPayload(JList(<<>>)),
      JsonPayload(Group("g1", <<FeatureLead>>)),
      JsonPayload(JScalar),
      JsonPayload(JList(<<JScalar>>)),
      JsonPayload(JList(<<Group("g1", <<FeatureLead, FeatureEmail>>)>>)),
      JsonPayload(JList(<<Group("g1", <<FeatureLead>>), Group("g2", <<>>)>>)),
      JsonPayload(JList(<<GroupWithoutList("g1"), Group("g2", <<FeatureEmail>>)>>)) }

\* the 'main_category' cell of the i-th product: the first two differ in case
\* only, a third has none
CategoryOfProduct(i) ==
    IF i = 1 THEN Cat(<<"C", "R", "M">>)
    ELSE IF i = 2 THEN Cat(<<"c", "r", "m">>)
    ELSE NaCat

\* the i-th product of a CSV, with the given 'Features' cell
CsvProduct(i, payload) ==
    [product_name |-> NameOf(i),
     seller |-> <<"s">>,
     main_category |-> CategoryOfProduct(i),
     rating |-> Num(R(4, 1)),
     Features |-> payload]

RECURSIVE CsvTables(_)
CsvTables(n) ==
    IF n = 0 THEN {<<>>}
    ELSE LET shorter == CsvTables(n - 1)
         IN  shorter \cup
             {Append(t, CsvProduct(n, p)) : t \in {u \in shorter : Len(u) = n - 1},
                                            p \in Payloads}

InitLoad ==
    /\ data \in CsvTables(MaxProducts)
    /\ preprocessed_dataset = <<>>
    /\ loaded = FALSE
    /\ cosine = <<>>
    /\ similarity_threshold = DefaultThreshold
    /\ feature_weight = DefaultFeatureWeight
    /\ rating_weight = DefaultRatingWeight
    /\ call = NoCall

\* DataLoader.__init__: the table read from the CSV is flattened
Load ==
    /\ ~loaded
    /\ preprocessed_dataset' = preprocess_data(data)
    /\ loaded' = TRUE
    /\ call' = [op |-> "load"]
    /\ UNCHANGED <<data, cosine, similarity_threshold, feature_weight, rating_weight>>

\* categories asked of the loader: one of each product, a part of one, one of
\* no product
LoaderCategories ==
    { <<"C", "R", "M">>, <<"c", "r", "m">>, <<"C", "R">>, <<"x">> }

\* DataLoader.get_vendors_by_category on the loaded catalog
GetVendorsByCategory ==
    /\ loaded
    /\ call.op = "load"
    /\ \E category \in LoaderCategories :
        call' = [op |-> "get_vendors_by_category",
                 category |-> category,
                 result |-> DataLoader_get_vendors_by_category(preprocessed_dataset,
                                                               category)]
    /\ UNCHANGED <<data, preprocessed_dataset, loaded, cosine, similarity_threshold,
                   feature_weight, rating_weight>>

NextLoad == Load \/ GetVendorsByCategory

SpecLoad == InitLoad /\ [][NextLoad]_vars

-----------------------------------------------------------------------------
(* Claims about the loader (checked under SpecLoad).                       *)

IsLoad == call.op = "load"

\* the payload has the expected nested structure: a list of feature groups
IsGroupList(payload) ==
    /\ payload.p = "json"
    /\ payload.v.j = "list"
    /\ \A g \in 1..Len(payload.v.items) : payload.v.items[g].j = "dict"

\* the feature records of a group: none when the list is empty or missing
RecordsOf(group) ==
    IF "features" \in DOMAIN group.d /\ group.d.features.j = "list"
    THEN group.d.features.items
    ELSE <<>>

\* the rows of the flattened table that came from a product and a group
RowsOfGroup(product, group) ==
    SelectSeq(preprocessed_dataset,
              LAMBDA row : /\ row.product_name = product.product_name
                           /\ row.Features_Category = group.d.Category)

\* the rows of the flattened table that came from a product
RowsOfProduct(product) ==
    SelectSeq(preprocessed_dataset, LAMBDA row : row.product_name = product.product_name)

\* C15: the flattener emits exactly one row per (product, feature group,
\* feature record): each group contributes as many rows as it has feature
\* records, and a group whose feature list is empty or missing contributes
\* zero rows.
C15_OneRowPerFeatureRecord ==
    IsLoad =>
        \A i \in 1..Len(data) :
            IsGroupList(data[i].Features) =>
                \A g \in 1..Len(data[i].Features.v.items) :
                    Len(RowsOfGroup(data[i], data[i].Features.v.items[g]))
                    = Len(RecordsOf(data[i].Features.v.items[g]))

\* C16: a product whose feature payload is absent, null or not parseable as
\* the expected nested structure never makes flattening fail and contributes
\* zero rows to the flattened table, whatever the other products' payloads
\* are (also when every payload is absent or malformed).
C16_MalformedPayloadGivesNoRows ==
    IsLoad =>
        \A i \in 1..Len(data) :
            ~IsGroupList(data[i].Features) => RowsOfProduct(data[i]) = <<>>

\* the rating of the catalog product with the given identity, 0 when there
\* is no such product or its rating is not known
RatingOfIdentity(table, product_name, seller) ==
    IF \E i \in 1..Len(table) :
           /\ table[i].product_name = product_name
           /\ table[i].seller = seller
           /\ table[i].rating.t = "num"
    THEN (CHOOSE row \in Range(table) :
              row.product_name = product_name /\ row.seller = seller).rating
    ELSE Num(Zero)

\* C19: the rating attached to a vendor aggregate is the rating of the
\* catalog product with the same product_name and the same seller, and 0
\* when no such product or rating is known.
C19_RatingOfSameIdentity ==
    (loaded /\ IsQualify /\ call.response.status = 200) =>
        \A k \in 1..Len(call.response.results.ranked_vendors) :
            call.response.results.ranked_vendors[k].rating
            = RatingOfIdentity(data,
                               call.response.results.ranked_vendors[k].product_name,
                               call.response.results.ranked_vendors[k].vendor)

\* C20: serving any sequence of requests (vendor_qualification, categories,
\* vendors, features, health) leaves the loaded catalog unchanged: the
\* product table and the flattened feature table hold after each request the
\* rows and values they held before it, hence those held after startup.
C20_CatalogUnchanged ==
    [][data' = data /\ preprocessed_dataset' = preprocessed_dataset]_vars

\* a request was served whose handler kept only some rows of the feature
\* table, and one whose handler kept only some rows of the product table
C20_Witness ==
    /\ loaded
    /\ \/ /\ IsQualify
          /\ call.response.status = 200
          /\ CategoryFiltered(preprocessed_dataset, call.query.software_category)
             # preprocessed_dataset
       \/ /\ call.op = "vendors"
          /\ call.response.status = 200
          /\ Len(call.response.vendors) < Len(data)


-----------------------------------------------------------------------------
(* Claims about explanations and summaries (checked under SpecRank).       *)

IsExplain == call.op = "add_ranking_explanation"
IsSummary == call.op = "get_ranking_summary"

\* C21: add_ranking_explanation returns the vendors it received, in the same
\* order, each with the same rank_score and the same other fields; the only
\* change is the ranking_explanation entry added to each vendor.
C21_ExplanationLeavesRanking ==
    IsExplain =>
        /\ Len(call.result) = Len(call.ranked_vendors)
        /\ \A k \in 1..Len(call.result) :
            /\ DOMAIN call.result[k] = DOMAIN call.ranked_vendors[k] \cup {"ranking_explanation"}
            /\ \A field \in DOMAIN call.ranked_vendors[k] :
                 call.result[k][field] = call.ranked_vendors[k][field]

\* an explained list of two vendors of different score, one of them scored
\* with a clamped value
C21_Witness ==
    /\ IsExplain
    /\ Len(call.result) >= 2
    /\ call.result[1].rank_score # call.result[2].rank_score
    /\ \E k \in 1..Len(call.result) :
        LET m == call.result[k].ranking_explanation.ranking_methodology
        IN  RAdd(m.similarity_component, m.rating_component) # call.result[k].rank_score

\* C24 as stated: for every vendor returned with an explanation,
\* similarity_component + rating_component equals final_score and equals the
\* rank_score compute_rank_score gives the vendor.
C24_ExplanationReproducesScore ==
    IsExplain =>
        \A k \in 1..Len(call.result) :
            LET r == call.result[k]
                m == r.ranking_explanation.ranking_methodology
            IN  /\ RAdd(m.similarity_component, m.rating_component) = m.final_score
                /\ m.final_score = r.rank_score
                /\ r.rank_score = compute_rank_score(feature_weight, rating_weight,
                                                     SourceOf(r), None)

\* C22: the summary describes the list rank_vendors returned after the
\* truncation: total_vendors is its length, score_range its least and greatest
\* rank_score, avg_score their mean, top_vendor its first vendor; the summary
\* of an empty list reports zero vendors and zero scores.
C22_SummaryOfReturnedList ==
    IsSummary =>
        LET returned == call.ranked_vendors
            s == call.result
            n == Len(returned)
        IN  /\ s.total_vendors = n
            /\ n = 0 => /\ s.score_range = [min |-> Zero, max |-> Zero]
                        /\ s.avg_score = Zero
            /\ n > 0 =>
                /\ \E k \in 1..n : s.score_range.min = returned[k].rank_score
                /\ \E k \in 1..n : s.score_range.max = returned[k].rank_score
                /\ \A k \in 1..n : /\ RLe(s.score_range.min, returned[k].rank_score)
                                   /\ RLe(returned[k].rank_score, s.score_range.max)
                /\ RMul(s.avg_score, R(n, 1))
                   = RSum([k \in 1..n |-> returned[k].rank_score])
                /\ s.top_vendor = [name |-> returned[1].product_name,
                                   score |-> returned[1].rank_score]

\* the summary of a list cut to two of three vendors, where the vendor cut
\* off scores below both and the mean is not the middle of the range
C22_Witness ==
    /\ IsSummary
    /\ Len(call.vendors_dict) = 3
    /\ Len(call.ranked_vendors) = 2
    /\ call.result.total_vendors = 2
    /\ call.result.score_range.min # call.result.score_range.max
    /\ \E i \in 1..3 :
        RLt(compute_rank_score(feature_weight, rating_weight, call.vendors_dict[i], None),
            call.result.score_range.min)


-----------------------------------------------------------------------------
(* Claims about the loader's category lookup (checked under SpecLoad).     *)

IsGetByCategory == call.op = "get_vendors_by_category"

\* C23: get_vendors_by_category(c) returns exactly the rows of the flattened
\* table whose main_category equals c, in the table's order: every returned
\* row has category c, and a category that no row has gives an empty result.
C23_RowsOfCategory ==
    IsGetByCategory =>
        /\ call.result = SelectSeq(preprocessed_dataset,
                                   LAMBDA row : row.main_category = Cat(call.category))
        /\ \A k \in 1..Len(call.result) : call.result[k].main_category = Cat(call.category)
        /\ (\A i \in 1..Len(preprocessed_dataset) :
                preprocessed_dataset[i].main_category # Cat(call.category))
           => call.result = <<>>

\* a lookup that returns the rows of one product and leaves out the rows of a
\* product whose category differs from the argument in case only
C23_Witness ==
    /\ IsGetByCategory
    /\ call.result # <<>>
    /\ \E i \in 1..Len(preprocessed_dataset) :
        /\ preprocessed_dataset[i].main_category # Cat(call.category)
        /\ str_contains(preprocessed_dataset[i].main_category, call.category)


-----------------------------------------------------------------------------
(* Further claims about the matcher (checked under SpecMatch).             *)

\* C25: the match list returned by find_matching_features is sorted by
\* similarity_score, non-increasing, for every input.
C25_MatchesSortedDescending ==
    IsFind =>
        \A a, b \in 1..Len(call.result) :
            a < b => RLe(call.result[b].similarity_score, call.result[a].similarity_score)

\* a match list of different scores that the loop did not build in sorted order
C25_Witness ==
    /\ IsFind
    /\ \E a, b \in 1..Len(call.result) :
        call.result[a].similarity_score # call.result[b].similarity_score
    /\ call.result # UnsortedMatches(similarity_threshold, call.capabilities,
                                     preprocessed_dataset,
                                     MatrixOf(call.capabilities, preprocessed_dataset))

\* C26: for every vendor aggregate, matched_capabilities holds each capability
\* at most once and holds exactly the matched_capability values of the
\* vendor's matching_features: a capability matched through several features,
\* or requested several times, is one entry.
C26_MatchedCapabilitiesAreASet ==
    IsFilter =>
        \A i \in 1..Len(call.result.matching_vendors) :
            LET v == call.result.matching_vendors[i]
            IN  /\ \A a, b \in 1..Len(v.matched_capabilities) :
                     v.matched_capabilities[a] = v.matched_capabilities[b] => a = b
                /\ Range(v.matched_capabilities)
                   = {v.matching_features[k].matched_capability :
                          k \in 1..Len(v.matching_features)}

\* a vendor with two capabilities matched through three matches
C26_Witness ==
    /\ IsFilter
    /\ \E i \in 1..Len(call.result.matching_vendors) :
        /\ Len(call.result.matching_vendors[i].matched_capabilities) = 2
        /\ call.result.matching_vendors[i].total_matches = 3

\* the words of a name or description cell: none when the cell is missing
\* (None, NaN, or printed as 'nan') or empty
WordsOf(cell) ==
    IF cell \in {NaNCell, NoneCell} \/ cell = Str(<<"nan">>) THEN <<>> ELSE cell.w

\* C27: the text built for a feature row is the name twice followed by the
\* description; when name and description are both empty or missing it is the
\* fixed placeholder; it is never the empty string.
C27_FeatureTextNeverEmpty ==
    IsFind =>
        \A k \in 1..Len(call.result) :
            LET m == call.result[k]
                name == WordsOf(m.feature_name)
                desc == WordsOf(m.feature_description)
            IN  /\ m.feature_text # <<>>
                /\ (name = <<>> /\ desc = <<>>) => m.feature_text = <<"unknown", "feature">>
                /\ (name # <<>> \/ desc # <<>>) => m.feature_text = name \o name \o desc

\* matches of a row with neither name nor description and of a row with both
C27_Witness ==
    /\ IsFind
    /\ \E k \in 1..Len(call.result) :
        /\ call.result[k].feature_name = NoneCell
        /\ call.result[k].feature_description = NaNCell
        /\ call.result[k].feature_text = <<"unknown", "feature">>
    /\ \E k \in 1..Len(call.result) :
        call.result[k].feature_text = <<"email", "email", "lead">>

\* C28: for every vendor aggregate, matching_features is ordered by
\* similarity_score non-increasing and the score of its first entry is
\* max_similarity_score.
C28_VendorFeaturesSortedDescending ==
    IsFilter =>
        \A i \in 1..Len(call.result.matching_vendors) :
            LET v == call.result.matching_vendors[i]
            IN  /\ \A a, b \in 1..Len(v.matching_features) :
                     a < b => RLe(v.matching_features[b].similarity_score,
                                  v.matching_features[a].similarity_score)
                /\ v.matching_features # <<>>
                /\ v.matching_features[1].similarity_score = v.max_similarity_score

\* a vendor whose matching features have different scores
C28_Witness ==
    /\ IsFilter
    /\ \E i \in 1..Len(call.result.matching_vendors) :
        LET v == call.result.matching_vendors[i]
        IN  /\ Len(v.matching_features) >= 2
            /\ RLt(v.matching_features[Len(v.matching_features)].similarity_score,
                   v.matching_features[1].similarity_score)

\* the sum of total_matches over the vendors of a map
SumOfTotalMatches(matching_vendors) ==
    LET f[i \in 0..Len(matching_vendors)] ==
            IF i = 0 THEN 0 ELSE f[i - 1] + matching_vendors[i].total_matches
    IN  f[Len(matching_vendors)]

\* the number of (capability, row of the category) pairs at or above the threshold
RetainedPairs(capabilities, rows) ==
    IF capabilities = <<>> \/ rows = <<>> THEN 0
    ELSE Cardinality({q \in (1..Len(capabilities)) \X (1..Len(rows)) :
                         RLe(similarity_threshold,
                             MatrixOf(capabilities, rows).at[q[1]][q[2]])})

\* C29: in every result of filter_vendors_by_category_and_capabilities,
\* total_vendors is the number of entries of matching_vendors, and
\* total_matches is the number of feature-level matches and the sum of
\* total_matches over the vendors of matching_vendors.
C29_TotalsAgree ==
    IsFilter =>
        /\ call.result.total_vendors = Len(call.result.matching_vendors)
        /\ call.result.total_matches = Len(RawMatches(call.result))
        /\ call.result.total_matches
           = RetainedPairs(call.capabilities,
                           CategoryFiltered(preprocessed_dataset, call.software_category))
        /\ call.result.total_matches = SumOfTotalMatches(call.result.matching_vendors)

\* two vendors sharing three matches
C29_Witness ==
    /\ IsFilter
    /\ call.result.total_vendors = 2
    /\ call.result.total_matches = 3


-----------------------------------------------------------------------------
(* A further claim about the service (checked under Spec).                 *)

\* max(top_n, 0)
AtLeastZero(n) == IF n > 0 THEN n ELSE 0

\* C30 as stated: for every integer top_n of a query, zero and negative ones
\* included, a vendor-qualification response returns at most max(top_n, 0)
\* ranked vendors, and returned_vendors never exceeds total_qualified_vendors.
C30_AtMostTopN ==
    (IsQualify /\ call.response.status = 200 /\ call.query.top_n.t = "int") =>
        /\ Len(call.response.results.ranked_vendors) <= AtLeastZero(call.query.top_n.v)
        /\ "returned_vendors" \in DOMAIN call.response.results =>
               /\ call.response.results.returned_vendors
                  = Len(call.response.results.ranked_vendors)
               /\ call.response.results.returned_vendors
                  <= call.response.results.total_qualified_vendors

====
